---- MODULE Spec2Model ----
(***************************************************************************)
(* A model of go-strftime: the directive table `formats`, the two regular  *)
(* expressions fmtRe and fmtBackquoteRe, the one-shot Format/FormatTo and   *)
(* the compiled Formatter (NewFormatter, Formatter.Format, FormatTo).       *)
(*                                                                         *)
(* Strings are sequences of one-character strings.  A time.Time is a       *)
(* record of its wall-clock fields in its own location plus that location  *)
(* (name and offset east of UTC in seconds).                               *)
(***************************************************************************)
EXTENDS Integers, Sequences, FiniteSets, TLC

VARIABLES
    oneshot,    \* the last call of the package-level Format / FormatTo
    formatter,  \* the *Formatter built by NewFormatter, or Nil
    pc,         \* per caller: where it stands inside Formatter.Format(To)
    ct,         \* per caller: the time.Time argument of its current call
    args,       \* per caller: the []interface{} returned by self.formatFunc(t)
    ret,        \* per caller: what its last call returned / wrote
    wk          \* the frame of a running weekNumberFormatter call

vars == <<oneshot, formatter, pc, ct, args, ret, wk>>

-----------------------------------------------------------------------------
(* Bounds of the model *)

\* Longest generated template (all strings over Alphabet up to this length).
MaxLen == 4
\* Number of goroutines sharing one *Formatter.
NumCallers == 2

-----------------------------------------------------------------------------
(* Characters and small string helpers *)

DigitChars == <<"0", "1", "2", "3", "4", "5", "6", "7", "8", "9">>

DigitChar(d) == DigitChars[d + 1]

IsDigit(c) == \E d \in 0..9 : DigitChars[d + 1] = c

DigitVal(c) == CHOOSE d \in 0..9 : DigitChars[d + 1] = c

RECURSIVE Itoa(_)
Itoa(n) == IF n < 10 THEN <<DigitChar(n)>>
           ELSE Itoa(n \div 10) \o <<DigitChar(n % 10)>>

RECURSIVE Repeat(_, _)
Repeat(c, n) == IF n <= 0 THEN <<>> ELSE <<c>> \o Repeat(c, n - 1)

\* fmt's %0<w>d (and time's appendInt(x, w)) for x >= 0.
ZeroPad(n, w) == LET s == Itoa(n) IN Repeat("0", w - Len(s)) \o s

-----------------------------------------------------------------------------
(* time.Time: calendar arithmetic of package time on the modelled fields *)

IsLeap(y) == y % 4 = 0 /\ (y % 100 # 0 \/ y % 400 = 0)

DaysBefore == <<0, 31, 59, 90, 120, 151, 181, 212, 243, 273, 304, 334>>

\* t.YearDay(): 1..366, in t's location.
YearDay(t) == DaysBefore[t.month] + t.day
              + (IF t.month > 2 /\ IsLeap(t.year) THEN 1 ELSE 0)

\* Days from 0001-01-01 (a Monday) to 1 January of year y.
DaysBeforeYear(y) == 365 * (y - 1) + (y - 1) \div 4 - (y - 1) \div 100
                     + (y - 1) \div 400

\* t.Weekday(): 0 = Sunday .. 6 = Saturday, in t's location.
Weekday(t) == (DaysBeforeYear(t.year) + YearDay(t)) % 7

longDayNames == <<
    <<"S","u","n","d","a","y">>, <<"M","o","n","d","a","y">>,
    <<"T","u","e","s","d","a","y">>, <<"W","e","d","n","e","s","d","a","y">>,
    <<"T","h","u","r","s","d","a","y">>, <<"F","r","i","d","a","y">>,
    <<"S","a","t","u","r","d","a","y">> >>

longMonthNames == <<
    <<"J","a","n","u","a","r","y">>, <<"F","e","b","r","u","a","r","y">>,
    <<"M","a","r","c","h">>, <<"A","p","r","i","l">>, <<"M","a","y">>,
    <<"J","u","n","e">>, <<"J","u","l","y">>, <<"A","u","g","u","s","t">>,
    <<"S","e","p","t","e","m","b","e","r">>, <<"O","c","t","o","b","e","r">>,
    <<"N","o","v","e","m","b","e","r">>, <<"D","e","c","e","m","b","e","r">> >>

Abbrev(name) == SubSeq(name, 1, 3)

\* Seconds from 1 January 00:00:00 UTC of t.Year() to the instant of t
\* (whole seconds; t.nsec is carried beside it).  t.Year() is the year in
\* t's location, the instant is absolute: the zone offset is subtracted.
SecondsSinceYearStartUTC(t) ==
    (YearDay(t) - 1) * 86400 + t.hour * 3600 + t.minute * 60 + t.second
    - t.zone.offset

\* time.Time.Format(layout) for the layouts the package uses, each named by
\* its layout string.
stdHour12(t) == IF t.hour % 12 = 0 THEN 12 ELSE t.hour % 12

timeFormat(layout, t) ==
    CASE layout = "Mon"      -> Abbrev(longDayNames[Weekday(t) + 1])
      [] layout = "Monday"   -> longDayNames[Weekday(t) + 1]
      [] layout = "Jan"      -> Abbrev(longMonthNames[t.month])
      [] layout = "January"  -> longMonthNames[t.month]
      [] layout = "RFC1123"  ->
            Abbrev(longDayNames[Weekday(t) + 1]) \o <<",", " ">>
            \o ZeroPad(t.day, 2) \o <<" ">>
            \o Abbrev(longMonthNames[t.month]) \o <<" ">>
            \o ZeroPad(t.year, 4) \o <<" ">>
            \o ZeroPad(t.hour, 2) \o <<":">> \o ZeroPad(t.minute, 2)
            \o <<":">> \o ZeroPad(t.second, 2) \o <<" ">> \o t.zone.name
      [] layout = "02"       -> ZeroPad(t.day, 2)
      [] layout = "15"       -> ZeroPad(t.hour, 2)
      [] layout = "3"        -> Itoa(stdHour12(t))
      [] layout = "01"       -> ZeroPad(t.month, 2)
      [] layout = "04"       -> ZeroPad(t.minute, 2)
      [] layout = "PM"       -> IF t.hour >= 12 THEN <<"P","M">> ELSE <<"A","M">>
      [] layout = "05"       -> ZeroPad(t.second, 2)
      [] layout = "01/02/06" -> ZeroPad(t.month, 2) \o <<"/">> \o ZeroPad(t.day, 2)
                                \o <<"/">> \o ZeroPad(t.year % 100, 2)
      [] layout = "15:04:05" -> ZeroPad(t.hour, 2) \o <<":">> \o ZeroPad(t.minute, 2)
                                \o <<":">> \o ZeroPad(t.second, 2)
      [] layout = "06"       -> ZeroPad(t.year % 100, 2)
      [] layout = "2006"     -> ZeroPad(t.year, 4)
      [] layout = "MST"      -> t.zone.name

-----------------------------------------------------------------------------
(* The directive table *)

\* const WEEK = time.Hour * 24 * 7, in seconds.
WEEK == 604800

\* start := time.Date(t.Year(), time.January, 1, 23, 0, 0, 0, time.UTC),
\* as seconds after 1 January 00:00 UTC of t.Year().
weekStart == 82800

\* A bug Before does not have: !start.After(t), and the nanoseconds dropped.
BeforeOrEqual(s, t) == s <= SecondsSinceYearStartUTC(t)

\* start.Before(t), start being `s` whole seconds after 1 January 00:00 UTC
\* (start never has a nanosecond part).
Before(s, t) == LET ts == SecondsSinceYearStartUTC(t)
                IN  s < ts \/ (s = ts /\ t.nsec > 0)

\* The loop of weekNumberFormatter from the frame (start, week).
RECURSIVE weekLoop(_, _, _)
weekLoop(start, week, t) ==
    IF Before(start, t) THEN weekLoop(start + WEEK, week + 1, t) ELSE week

weekNumberFormatter(t) == ZeroPad(weekLoop(weekStart, 0, t), 2)

\* int(t.Sub(start).Hours()/24) for start = 1 January 00:00 UTC of t.Year().
\* Duration.Hours() is float64(hours) + float64(nsec)/3.6e12 and the quotient
\* by 24 is a float64 too: a duration that is 1 ns short of a whole number D
\* of days rounds up to D once D*24 >= 4096 (the float64 spacing there is
\* 2^-40 h = 3.3 ns), and one up to 3 ns short once D*24 >= 8192.  int()
\* truncates toward zero, so an instant less than a day before `start` gives 0.
hoursRoundUpNanos(days) == IF days * 24 >= 8192 THEN 3
                           ELSE IF days * 24 >= 4096 THEN 1 ELSE 0

daysSinceYearStart(t) ==
    LET s == SecondsSinceYearStartUTC(t)
    IN  IF s < 0
        THEN -((IF t.nsec > 0 THEN -s - 1 ELSE -s) \div 86400)
        ELSE LET q == s \div 86400
             IN  IF s % 86400 = 86399
                    /\ t.nsec >= 1000000000 - hoursRoundUpNanos(q + 1)
                 THEN q + 1 ELSE q

dayOfYearFormatter(t) == ZeroPad(daysSinceYearStart(t) + 1, 3)

\* The keys of `formats`, without their leading '%'.
formatKeys == {"a", "A", "b", "B", "c", "d", "H", "I", "j", "m", "M", "p",
               "S", "U", "w", "W", "x", "X", "y", "Y", "Z"}

\* _, ok := formats[match]
hasFormat(match) == Len(match) = 2 /\ match[1] = "%" /\ match[2] \in formatKeys

\* formats[match](t)
formats(match, t) ==
    LET k == match[2] IN
    CASE k = "a" -> timeFormat("Mon", t)
      [] k = "A" -> timeFormat("Monday", t)
      [] k = "b" -> timeFormat("Jan", t)
      [] k = "B" -> timeFormat("January", t)
      [] k = "c" -> timeFormat("RFC1123", t)
      [] k = "d" -> timeFormat("02", t)
      [] k = "H" -> timeFormat("15", t)
      [] k = "I" -> timeFormat("3", t)
      [] k = "j" -> dayOfYearFormatter(t)
      [] k = "m" -> timeFormat("01", t)
      [] k = "M" -> timeFormat("04", t)
      [] k = "p" -> timeFormat("PM", t)
      [] k = "S" -> timeFormat("05", t)
      [] k = "U" -> weekNumberFormatter(t)
      [] k = "W" -> weekNumberFormatter(t)
      [] k = "w" -> Itoa(Weekday(t))
      [] k = "x" -> timeFormat("01/02/06", t)
      [] k = "X" -> timeFormat("15:04:05", t)
      [] k = "y" -> timeFormat("06", t)
      [] k = "Y" -> timeFormat("2006", t)
      [] k = "Z" -> timeFormat("MST", t)

\* formatNano: the 9-byte buffer filled from the right with u%10, u /= 10.
RECURSIVE nanoBuf(_, _)
nanoBuf(u, start) == IF start = 0 THEN <<>>
                     ELSE nanoBuf(u \div 10, start - 1) \o <<DigitChar(u % 10)>>

RECURSIVE trimZeros(_, _)
trimZeros(buf, n) == IF n > 0 /\ buf[n] = "0" THEN trimZeros(buf, n - 1) ELSE n

formatNano(nanosec, n, trim) ==
    LET buf == nanoBuf(nanosec, 9)
        n1  == IF n > 9 THEN 9 ELSE n
        n2  == IF trim THEN trimZeros(buf, n1) ELSE n1
    IN  SubSeq(buf, 1, n2)

\* A bug formatNanoForMatch does not have: trim passed as true.
formatNanoForMatchTrim(match, t) == formatNano(t.nsec, DigitVal(match[2]), TRUE)

\* size := int(match[1] - '0')
formatNanoForMatch(match, t) == formatNano(t.nsec, DigitVal(match[2]), FALSE)

PERCENT == <<"%", "%">>

repl(match, t) ==
    IF match = PERCENT THEN <<"%">>
    ELSE IF hasFormat(match) THEN formats(match, t)
    ELSE formatNanoForMatch(match, t)

-----------------------------------------------------------------------------
(* The two regular expressions and regexp.ReplaceAllStringFunc *)

digits19 == {"1", "2", "3", "4", "5", "6", "7", "8", "9"}

\* A bug fmtRe does not have: "%([%" + keys + "]|[1-9])", the 'n' forgotten.
fmtReMatchNoN(src, i) ==
    IF src[i] # "%" \/ i + 1 > Len(src) THEN 0
    ELSE IF src[i + 1] \in {"%"} \cup formatKeys \cup digits19 THEN 2
    ELSE 0

\* fmtRe = "%([%" + keys + "]|[1-9]n)": the length of the match that starts
\* at src[i], 0 when none does.
fmtReMatch(src, i) ==
    IF src[i] # "%" \/ i + 1 > Len(src) THEN 0
    ELSE IF src[i + 1] \in {"%"} \cup formatKeys THEN 2
    ELSE IF src[i + 1] \in digits19 /\ i + 2 <= Len(src) /\ src[i + 2] = "n"
         THEN 3
    ELSE 0

\* fmtBackquoteRe = "%([^" + keys + "1-9]|[1-9][^n])".  '%' is not among the
\* excluded characters, so "%%" matches the first alternative, and [^n]
\* matches '%'.
fmtBackquoteReMatch(src, i) ==
    IF src[i] # "%" \/ i + 1 > Len(src) THEN 0
    ELSE IF src[i + 1] \notin formatKeys \cup digits19 THEN 2
    ELSE IF src[i + 1] \in digits19 /\ i + 2 <= Len(src) /\ src[i + 2] # "n"
         THEN 3
    ELSE 0

reMatch(re, src, i) == IF re = "fmtRe" THEN fmtReMatch(src, i)
                       ELSE fmtBackquoteReMatch(src, i)

\* The matches of re in src, leftmost first and non-overlapping, in order.
FindAllString(re, src) ==
    LET R[i \in 1..(Len(src) + 1)] ==
            IF i > Len(src) THEN <<>>
            ELSE LET n == reMatch(re, src, i)
                 IN  IF n = 0 THEN R[i + 1]
                     ELSE <<SubSeq(src, i, i + n - 1)>> \o R[i + n]
    IN  R[1]

\* The distinct matches: the strings a replacement callback is called with.
Matches(re, src) ==
    LET all == FindAllString(re, src) IN {all[k] : k \in 1..Len(all)}

\* re.ReplaceAllStringFunc(src, fn): each match replaced by fn[match], the
\* text between the matches copied, fn's result not scanned again.  fn is
\* the callback as a function on Matches(re, src).
ReplaceAllStringFunc(re, src, fn) ==
    LET R[i \in 1..(Len(src) + 1)] ==
            IF i > Len(src) THEN <<>>
            ELSE LET n == reMatch(re, src, i)
                 IN  IF n = 0 THEN <<src[i]>> \o R[i + 1]
                     ELSE fn[SubSeq(src, i, i + n - 1)] \o R[i + n]
    IN  R[1]

-----------------------------------------------------------------------------
(* The one-shot formatter *)

Format(format, t) ==
    ReplaceAllStringFunc("fmtRe", format,
        [match \in Matches("fmtRe", format) |-> repl(match, t)])

-----------------------------------------------------------------------------
(* fmt.Sprintf, for a format and string operands.  The templates of the     *)
(* model hold no flag character (#0+- and space), no '.', '[' or '*', and   *)
(* no verb among v, q, x, X, T, p after a '%' that survives into strFormat, *)
(* so those branches of doPrintf are left out.                              *)

\* First index >= i of format that is not a digit (Len(format)+1 when none).
RECURSIVE afterDigits(_, _)
afterDigits(format, i) ==
    IF i <= Len(format) /\ IsDigit(format[i]) THEN afterDigits(format, i + 1)
    ELSE i

RECURSIVE parsenum(_, _, _)
parsenum(format, i, j) ==
    IF i >= j THEN 0
    ELSE parsenum(format, i, j - 1) * 10 + DigitVal(format[j - 1])

\* fmt.padString: left-padded with spaces to the width.
padString(s, wid) == Repeat(" ", wid - Len(s)) \o s

RECURSIVE extraArgs(_, _)
extraArgs(a, k) ==
    IF k > Len(a) THEN <<>>
    ELSE (IF k > 1 THEN <<",", " ">> ELSE <<>>)
         \o <<"s","t","r","i","n","g","=">> \o a[k] \o extraArgs(a, k + 1)

\* "%!(EXTRA string=..., ...)" when operands are left over.
extraString(a, argNum) ==
    IF argNum < Len(a)
    THEN <<"%","!","(","E","X","T","R","A"," ">>
         \o extraArgs(SubSeq(a, argNum + 1, Len(a)), 1) \o <<")">>
    ELSE <<>>

noVerbString == <<"%","!","(","N","O","V","E","R","B",")">>

missingString == <<"(","M","I","S","S","I","N","G",")">>

\* printArg of a string operand under `verb` with width `wid`.
printArg(arg, verb, wid) ==
    IF verb = "s" THEN padString(arg, wid)
    ELSE <<"%", "!", verb, "(">> \o <<"s","t","r","i","n","g","=">>
         \o padString(arg, wid) \o <<")">>

Sprintf(format, a) ==
    LET end == Len(format)
        P[i \in 1..(end + 1), argNum \in 0..Len(a)] ==
            IF i > end THEN extraString(a, argNum)
            ELSE IF format[i] # "%" THEN <<format[i]>> \o P[i + 1, argNum]
            ELSE LET j   == afterDigits(format, i + 1)
                     wid == parsenum(format, i + 1, j)
                 IN  IF j > end THEN noVerbString \o extraString(a, argNum)
                     ELSE IF format[j] = "%" THEN <<"%">> \o P[j + 1, argNum]
                     ELSE IF argNum >= Len(a)
                          THEN <<"%", "!", format[j]>> \o missingString
                               \o P[j + 1, argNum]
                     ELSE printArg(a[argNum + 1], format[j], wid)
                          \o P[j + 1, argNum + 1]
    IN  P[1, 0]

-----------------------------------------------------------------------------
(* The compiled formatter *)

Nil == [format |-> <<"nil">>, strFormat |-> <<"nil">>, funs |-> <<>>]

\* f: an unrecognised '%' sequence gets one more '%' in front.
backquote(match) == IF match = PERCENT THEN match ELSE <<"%">> \o match

\* f1: a recognised directive becomes the placeholder "%s".
placeholder(match) == IF match = PERCENT THEN match ELSE <<"%", "s">>

\* f2 appends one FormatFunc per match that is not "%%"; a FormatFunc is
\* identified by the directive it was made for.
collectFuns(format) ==
    SelectSeq(FindAllString("fmtRe", format), LAMBDA match : match # PERCENT)

skeleton(format) ==
    LET strFormat ==
            ReplaceAllStringFunc("fmtBackquoteRe", format,
                [match \in Matches("fmtBackquoteRe", format) |-> backquote(match)])
    IN  ReplaceAllStringFunc("fmtRe", strFormat,
            [match \in Matches("fmtRe", strFormat) |-> placeholder(match)])

NewFormatter(format) ==
    [format    |-> format,
     strFormat |-> skeleton(format),
     funs      |-> collectFuns(format)]

\* A stored FormatFunc applied to t: formats[match], or the closure over
\* formatNanoForMatch(match, t).
applyFun(match, t) ==
    IF hasFormat(match) THEN formats(match, t) ELSE formatNanoForMatch(match, t)

\* self.formatFunc(t)
formatFunc(funs, t) == [i \in 1..Len(funs) |-> applyFun(funs[i], t)]

-----------------------------------------------------------------------------
(* Inputs *)

UTC == [name |-> <<"U","T","C">>, offset |-> 0]

\* time.FixedZone(name, offset): the extremes -12h and +14h and two between.
Zones == {UTC,
          [name |-> <<"C","E","T">>, offset |-> 3600],
          [name |-> <<"E","S","T">>, offset |-> -18000],
          [name |-> <<"I","D","L","W">>, offset |-> -43200],
          [name |-> <<"L","I","N","T">>, offset |-> 50400]}

Date(y, mo, d, h, mi, sec, ns, z) ==
    [year |-> y, month |-> mo, day |-> d, hour |-> h, minute |-> mi,
     second |-> sec, nsec |-> ns, zone |-> z]

\* testTime of the package's tests.
testTime == Date(2009, 11, 10, 23, 1, 2, 3, UTC)

otherTime == Date(2008, 1, 2, 0, 30, 0, 120000000, [name |-> <<"C","E","T">>, offset |-> 3600])

Years == {2008, 2009}

MonthDays == {<<1, 1>>, <<1, 2>>, <<6, 20>>, <<11, 10>>, <<12, 31>>}

Clocks == {<<0, 0, 0>>, <<0, 30, 0>>, <<9, 5, 7>>, <<12, 0, 0>>, <<15, 4, 5>>,
           <<23, 0, 0>>, <<23, 1, 2>>, <<23, 59, 59>>}

Nanos == {0, 1, 3, 120000000, 999999997, 999999999}

Times == {Date(y, md[1], md[2], c[1], c[2], c[3], ns, z) :
            y \in Years, md \in MonthDays, c \in Clocks, ns \in Nanos, z \in Zones}

StructTimes == {testTime, otherTime}

Alphabet == {"%", "1", "n", "Y", "s"}

RECURSIVE Strings(_)
Strings(n) ==
    IF n = 0 THEN {<<>>}
    ELSE LET P == Strings(n - 1)
         IN  P \cup {Append(p, a) : p \in {q \in P : Len(q) = n - 1}, a \in Alphabet}

\* The templates of the package's tests that are not single directives.
TestTemplates == {
    <<"%","g">>, <<"%","%","%","Y">>, <<"%","3","%","%">>,
    <<"%","3","%","3","n">>, <<"%","3","x","y","%","3","n">>,
    <<"/","p","a","t","h","/","%","Y","/","%","m","/","r","e","p","o","r","t">>,
    <<>> }

\* Longer templates in which an unrecognised "%<digit>" meets another '%'.
MoreTemplates == {
    <<"%","1","%","s">>, <<"%","1","%","g">>, <<"%","1","%","s","%","Y">>,
    <<"%","1","%","%","s">>, <<"%","1","%","g","%","Y">>,
    <<"%","1","%","1","1","n","%","Y">> }

NamedTemplates == TestTemplates \cup MoreTemplates

DirectiveTemplates ==
    {<<"%", k>> : k \in formatKeys} \cup {PERCENT}
    \cup {<<"%", d, "n">> : d \in digits19}

Templates == Strings(MaxLen) \cup NamedTemplates \cup DirectiveTemplates

\* Templates rendered by several goroutines at once.
SharedTemplates == {
    <<"%","Y">>, <<"%","9","n">>, <<"%","%","%","Y">>, <<"%","3","%","3","n">>,
    <<"/","p","a","t","h","/","%","Y","/","%","m","/","r","e","p","o","r","t">>,
    <<"%","1","%","s","%","Y">> }

OneShotInputs == (Templates \X StructTimes) \cup (DirectiveTemplates \X Times)

Callers == 1..NumCallers

-----------------------------------------------------------------------------
(* State and actions *)

NoCall == [op |-> "none", format |-> <<>>, t |-> testTime, out |-> <<>>, n |-> 0]

NoReturn == [op |-> "none", t |-> testTime, out |-> <<>>, n |-> 0]

WeekIdle == [pc |-> "idle", t |-> testTime, start |-> 0, week |-> 0, out |-> <<>>]

Init ==
    /\ oneshot = NoCall
    /\ formatter = Nil
    /\ pc = [c \in Callers |-> "idle"]
    /\ ct = [c \in Callers |-> testTime]
    /\ args = [c \in Callers |-> <<>>]
    /\ ret = [c \in Callers |-> NoReturn]
    /\ wk = WeekIdle

\* strftime.Format(format, t)
FormatCall ==
    /\ oneshot.op = "none"
    /\ \E in \in OneShotInputs :
          oneshot' = [op |-> "Format", format |-> in[1], t |-> in[2],
                      out |-> Format(in[1], in[2]), n |-> 0]
    /\ UNCHANGED <<formatter, pc, ct, args, ret, wk>>

\* strftime.FormatTo(w, format, t) on a bytes.Buffer: the bytes written and
\* their number.
FormatToCall ==
    /\ oneshot.op = "none"
    /\ \E in \in Templates \X StructTimes :
          LET result == Format(in[1], in[2])
          IN  oneshot' = [op |-> "FormatTo", format |-> in[1], t |-> in[2],
                          out |-> result, n |-> Len(result)]
    /\ UNCHANGED <<formatter, pc, ct, args, ret, wk>>

NextFormat ==
    \/ FormatCall
    \/ FormatToCall

SpecFormat == Init /\ [][NextFormat]_vars

\* formatter := strftime.NewFormatter(format)
NewFormatterCall ==
    /\ formatter = Nil
    /\ \E format \in Templates : formatter' = NewFormatter(format)
    /\ UNCHANGED <<oneshot, pc, ct, args, ret, wk>>

\* A goroutine enters formatter.Format(t) or formatter.FormatTo(w, t).
\* Goroutines other than the first run only on the SharedTemplates.
Enter(c, op, t) ==
    /\ formatter # Nil
    /\ pc[c] = "idle"
    /\ c = 1 \/ formatter.format \in SharedTemplates
    /\ pc' = [pc EXCEPT ![c] = op]
    /\ ct' = [ct EXCEPT ![c] = t]
    /\ ret' = [ret EXCEPT ![c] = NoReturn]
    /\ UNCHANGED <<oneshot, formatter, args, wk>>

\* self.formatFunc(t): the operands, in a slice of the call's own.
EvalFormatFunc(c) ==
    /\ pc[c] \in {"Format", "FormatTo"}
    /\ pc' = [pc EXCEPT ![c] = IF pc[c] = "Format" THEN "Sprintf" ELSE "Fprintf"]
    /\ args' = [args EXCEPT ![c] = formatFunc(formatter.funs, ct[c])]
    /\ UNCHANGED <<oneshot, formatter, ct, ret, wk>>

\* A bug Formatter.Format does not have: the rendered text stored back into
\* the skeleton.
FormatterFormatCaching(c) ==
    /\ pc[c] = "Sprintf"
    /\ LET out == Sprintf(formatter.strFormat, args[c])
       IN  /\ ret' = [ret EXCEPT ![c] = [op |-> "Format", t |-> ct[c],
                                          out |-> out, n |-> 0]]
           /\ formatter' = [formatter EXCEPT !.strFormat = out]
    /\ pc' = [pc EXCEPT ![c] = "idle"]
    /\ args' = [args EXCEPT ![c] = <<>>]
    /\ UNCHANGED <<oneshot, ct, wk>>

\* return fmt.Sprintf(self.strFormat, self.formatFunc(t)...)
FormatterFormat(c) ==
    /\ pc[c] = "Sprintf"
    /\ ret' = [ret EXCEPT ![c] = [op |-> "Format", t |-> ct[c],
                                   out |-> Sprintf(formatter.strFormat, args[c]),
                                   n |-> 0]]
    /\ pc' = [pc EXCEPT ![c] = "idle"]
    /\ args' = [args EXCEPT ![c] = <<>>]
    /\ UNCHANGED <<oneshot, formatter, ct, wk>>

\* return fmt.Fprintf(w, self.strFormat, self.formatFunc(t)...)
FormatterFormatTo(c) ==
    /\ pc[c] = "Fprintf"
    /\ LET out == Sprintf(formatter.strFormat, args[c])
       IN  ret' = [ret EXCEPT ![c] = [op |-> "FormatTo", t |-> ct[c],
                                      out |-> out, n |-> Len(out)]]
    /\ pc' = [pc EXCEPT ![c] = "idle"]
    /\ args' = [args EXCEPT ![c] = <<>>]
    /\ UNCHANGED <<oneshot, formatter, ct, wk>>

NextFormatter ==
    \/ NewFormatterCall
    \/ \E c \in Callers, op \in {"Format", "FormatTo"}, t \in StructTimes :
          Enter(c, op, t)
    \/ \E c \in Callers : EvalFormatFunc(c)
    \/ \E c \in Callers : FormatterFormat(c)
    \/ \E c \in Callers : FormatterFormatTo(c)

SpecFormatter == Init /\ [][NextFormatter]_vars

\* weekNumberFormatter(t), one loop iteration at a time.
WeekCall ==
    /\ wk.pc = "idle"
    /\ \E t \in Times :
          wk' = [pc |-> "loop", t |-> t, start |-> weekStart, week |-> 0,
                 out |-> <<>>]
    /\ UNCHANGED <<oneshot, formatter, pc, ct, args, ret>>

\* A bug the loop does not have: start.Add(WEEK) with its result dropped.
WeekStepDropsAdd ==
    /\ wk.pc = "loop"
    /\ Before(wk.start, wk.t)
    /\ wk' = [wk EXCEPT !.week = wk.week + 1]
    /\ UNCHANGED <<oneshot, formatter, pc, ct, args, ret>>

\* for start.Before(t) { week += 1; start = start.Add(WEEK) }
WeekStep ==
    /\ wk.pc = "loop"
    /\ Before(wk.start, wk.t)
    /\ wk' = [wk EXCEPT !.week = wk.week + 1, !.start = wk.start + WEEK]
    /\ UNCHANGED <<oneshot, formatter, pc, ct, args, ret>>

\* return fmt.Sprintf("%02d", week)
WeekReturn ==
    /\ wk.pc = "loop"
    /\ ~Before(wk.start, wk.t)
    /\ wk' = [wk EXCEPT !.pc = "done", !.out = ZeroPad(wk.week, 2)]
    /\ UNCHANGED <<oneshot, formatter, pc, ct, args, ret>>

NextWeek ==
    \/ WeekCall
    \/ WeekStep
    \/ WeekReturn

\* A call that has started runs on: nothing suspends the loop.
SpecWeek == Init /\ [][NextWeek]_vars /\ WF_vars(WeekStep) /\ WF_vars(WeekReturn)

-----------------------------------------------------------------------------
(* Properties *)

\* The rendering the documentation describes, token by token from the left:
\* "%%" is one '%', '%' + a table key is that directive, "%[1-9]n" is the
\* fraction, anything else is itself.
RECURSIVE Replay(_, _)
Replay(f, t) ==
    IF f = <<>> THEN <<>>
    ELSE IF Len(f) >= 2 /\ f[1] = "%" /\ f[2] = "%"
         THEN <<"%">> \o Replay(SubSeq(f, 3, Len(f)), t)
    ELSE IF Len(f) >= 2 /\ f[1] = "%" /\ f[2] \in formatKeys
         THEN formats(SubSeq(f, 1, 2), t) \o Replay(SubSeq(f, 3, Len(f)), t)
    ELSE IF Len(f) >= 3 /\ f[1] = "%" /\ f[2] \in digits19 /\ f[3] = "n"
         THEN formatNano(t.nsec, DigitVal(f[2]), FALSE)
              \o Replay(SubSeq(f, 4, Len(f)), t)
    ELSE <<f[1]>> \o Replay(Tail(f), t)

\* No '%' of f starts a recognised directive.
NoDirective(f) ==
    \A i \in 1..Len(f) :
        f[i] = "%" =>
            /\ ~(i + 1 <= Len(f) /\ f[i + 1] \in {"%"} \cup formatKeys)
            /\ ~(i + 2 <= Len(f) /\ f[i + 1] \in digits19 /\ f[i + 2] = "n")

\* The scan of f finds a "%%".
HasEscape(f) == \E i \in 1..Len(FindAllString("fmtRe", f)) :
                    FindAllString("fmtRe", f)[i] = PERCENT

RECURSIVE Pow10(_)
Pow10(n) == IF n = 0 THEN 1 ELSE 10 * Pow10(n - 1)

\* C1: whatever a Formatter call returned is what the one-shot Format returns
\* for the Formatter's template and the call's timestamp.
C1_FormatterEqualsFormat ==
    \A c \in Callers :
        ret[c].op # "none" => ret[c].out = Format(formatter.format, ret[c].t)

C3_EscapeIsOnePercent ==
    \A c \in Callers :
        (ret[c].op # "none" /\ HasEscape(formatter.format)) =>
            /\ Format(formatter.format, ret[c].t) = Replay(formatter.format, ret[c].t)
            /\ ret[c].out = Replay(formatter.format, ret[c].t)

\* C4: no step after NewFormatter changes the Formatter, and every call that
\* returns, however interleaved with others, returns what a freshly compiled
\* Formatter for the same template returns for that call's timestamp.
C4_RenderingLeavesFormatter ==
    [][ /\ formatter # Nil => formatter' = formatter
        /\ \A c \in Callers :
              (ret'[c] # ret[c] /\ ret'[c].op # "none") =>
                  LET fresh == NewFormatter(formatter'.format)
                  IN  /\ ret'[c].t = ct[c]
                      /\ ret'[c].out = Sprintf(fresh.strFormat,
                                               formatFunc(fresh.funs, ct[c]))
      ]_vars

C4_Witness ==
    \E c1, c2 \in Callers :
        /\ c1 # c2
        /\ formatter.funs # <<>>
        /\ pc[c1] \in {"Sprintf", "Fprintf"}
        /\ ret[c2].op # "none"
        /\ ret[c2].t # ct[c1]
        /\ ret[c2].out # Sprintf(formatter.strFormat, args[c1])

\* C5: "%Nn" renders exactly N characters, the first N digits of the
\* nanoseconds written as 9 zero-padded decimal digits, trailing zeros kept.
C5_NanoFirstDigits ==
    LET f == oneshot.format IN
    (oneshot.op # "none" /\ Len(f) = 3 /\ f[1] = "%" /\ f[2] \in digits19
        /\ f[3] = "n") =>
        LET N == DigitVal(f[2]) IN
        /\ Len(oneshot.out) = N
        /\ \A i \in 1..N :
              oneshot.out[i] = DigitChar((oneshot.t.nsec \div Pow10(9 - i)) % 10)

C5_Witness ==
    /\ oneshot.format = <<"%","6","n">>
    /\ oneshot.t.nsec = 120000000
    /\ oneshot.out = <<"1","2","0","0","0","0">>

\* C6: "%j" renders the day of the year of the timestamp's own calendar
\* date, 3 digits, 001..366.
C6_DayOfYearOfOwnDate ==
    (oneshot.op # "none" /\ oneshot.format = <<"%","j">>) =>
        /\ YearDay(oneshot.t) \in 1..366
        /\ oneshot.out = ZeroPad(YearDay(oneshot.t), 3)

\* C7: "%I" renders the 12-hour clock hour as two digits, 01..12.
C7_Hour12TwoDigits ==
    (oneshot.op # "none" /\ oneshot.format = <<"%","I">>) =>
        LET h   == oneshot.t.hour % 12
            h12 == IF h = 0 THEN 12 ELSE h
        IN  /\ Len(oneshot.out) = 2
            /\ oneshot.out = <<DigitChar(h12 \div 10), DigitChar(h12 % 10)>>

\* The skeleton s read the way Sprintf reads it: every '%' is followed by
\* '%' or by 's'; the result is the number of "%s", or -1 when some '%' is
\* followed by neither.
RECURSIVE Placeholders(_, _)
Placeholders(s, i) ==
    IF i > Len(s) THEN 0
    ELSE IF s[i] # "%" THEN Placeholders(s, i + 1)
    ELSE IF i + 1 > Len(s) \/ s[i + 1] \notin {"%", "s"} THEN -1
    ELSE LET rest == Placeholders(s, i + 2)
         IN  IF rest < 0 THEN -1
             ELSE IF s[i + 1] = "s" THEN rest + 1 ELSE rest

\* C8: in the skeleton NewFormatter builds every '%' is half of a "%%" or
\* starts a "%s", there are as many "%s" as stored functions, and the i-th
\* stands where the i-th directive stood: filling the placeholders with the
\* directives themselves gives the template back, "%%" read as '%'.
C8_SkeletonWellFormed ==
    formatter # Nil =>
        /\ Placeholders(formatter.strFormat, 1) = Len(formatter.funs)
        /\ Sprintf(formatter.strFormat, formatter.funs)
             = ReplaceAllStringFunc("fmtRe", formatter.format,
                   [m \in Matches("fmtRe", formatter.format) |->
                        IF m = PERCENT THEN <<"%">> ELSE m])

\* C9: "%U" and "%W" render the same two digits: the least k >= 0 for which
\* 1 January 23:00 UTC of t's year plus k weeks is not before t; "00" at or
\* before 1 January 23:00:00 UTC, "01" one nanosecond later.
C9_WeekNumberLeastK ==
    LET f  == oneshot.format
        t  == oneshot.t
        ts == SecondsSinceYearStartUTC(t)
        NotBefore(k) == \/ 23 * 3600 + k * 7 * 86400 > ts
                        \/ 23 * 3600 + k * 7 * 86400 = ts /\ t.nsec = 0
        least == CHOOSE k \in 0..60 :
                     NotBefore(k) /\ \A j \in 0..(k - 1) : ~NotBefore(j)
    IN  (oneshot.op # "none" /\ f \in {<<"%","U">>, <<"%","W">>}) =>
            /\ oneshot.out = ZeroPad(least, 2)
            /\ oneshot.out = Format(<<"%","U">>, t)
            /\ oneshot.out = Format(<<"%","W">>, t)
            /\ NotBefore(0) => oneshot.out = <<"0","0">>
            /\ (ts = 23 * 3600 /\ t.nsec = 1) => oneshot.out = <<"0","1">>

C9_Witness ==
    /\ oneshot.format = <<"%","U">>
    /\ oneshot.t = Date(2009, 1, 1, 23, 0, 0, 1, UTC)
    /\ oneshot.out = <<"0","1">>

\* C10: with the year taken in a zone between -12h and +14h, the loop of
\* weekNumberFormatter adds 7 days at most 53 times and then returns, and
\* what it returns is two digits, 00..53.
C10_WeekLoopTerminates ==
    /\ [](/\ wk.week <= 53
          /\ wk.pc = "done" =>
                /\ Len(wk.out) = 2
                /\ wk.out = <<DigitChar(wk.week \div 10), DigitChar(wk.week % 10)>>)
    /\ (wk.pc = "loop") ~> (wk.pc = "done")

C10_Witness ==
    /\ wk.pc = "done"
    /\ wk.week = 53
    /\ wk.t.zone.offset = -43200
    /\ wk.out = <<"5","3">>

====
